---- MODULE Spec2Model ----
(***************************************************************************)
(* A model of the Nepal Sambat conversion engine                           *)
(* (src/src/utils/julian.ts, src/src/calendar/conversion.ts).              *)
(*                                                                         *)
(* The engine is a library of functions without state of its own.  The     *)
(* model runs a short program of calls: `queue` holds the calls still to   *)
(* be made, `log` the calls made so far with what each returned, and `sky` *)
(* what the astronomical series (getLunarLongitude, getSolarLongitude,     *)
(* findLastNewMoonJD, findNextNewMoonJD, getSunriseJD) evaluate to at the  *)
(* instants the calls look at.  The series are sums of sines of doubles    *)
(* and are not computed here; `sky` is any function of the Julian Day.     *)
(*                                                                         *)
(* Numbers.  A Julian Day is held as the integer 2 * JD (gregorianToJD     *)
(* only returns values ending in .5).  A longitude is held in whole        *)
(* degrees.  An argument that is not an integer in the call is held as its *)
(* integer part, with its name in the call's `frac` set.                   *)
(***************************************************************************)
EXTENDS Integers, Sequences, FiniteSets, TLC

VARIABLES queue, log, sky

vars == <<queue, log, sky>>

(***************************************************************************)
(* Bounds of the model.                                                    *)
(***************************************************************************)
\* Years taken on each side of every anchor year.
YearSpan == 1

\* Sample longitudes taken in each 12-degree tithi sector.
SectorSamples == 2

\* Whole turns of 360 degrees the raw sums of the longitude series go up to.
RawTurns == 2

(***************************************************************************)
(* JavaScript arithmetic.                                                  *)
(***************************************************************************)
\* a % b of JavaScript for b > 0: the remainder takes the sign of a.
JsRem(a, b) == IF a >= 0 THEN a % b ELSE -((-a) % b)

\* Math.floor(365.25 * n), the product being exact in a double.
Floor365_25(n) == (1461 * n) \div 4

\* Math.floor(30.6001 * n) for the n = m + 1 in 4..15 the code passes.
Floor30_6001(n) == (306001 * n) \div 10000

(***************************************************************************)
(* utils/julian.ts                                                         *)
(***************************************************************************)
isLeapYearNo400(year) == JsRem(year, 4) = 0 /\ JsRem(year, 100) # 0

\* julian.ts:25
isLeapYear(year) ==
    (JsRem(year, 4) = 0 /\ JsRem(year, 100) # 0) \/ JsRem(year, 400) = 0

\* julian.ts:22-27: the table, with February set from the leap-year rule.
daysInMonth(year, month) ==
    IF month = 2
    THEN (IF isLeapYear(year) THEN 29 ELSE 28)
    ELSE <<31, 28, 31, 30, 31, 30, 31, 31, 30, 31, 30, 31>>[month]

\* julian.ts:12-31: the message of the Error thrown, "" when none is.
validationError(a) ==
    IF "year" \in a.frac THEN "Year must be an integer."
    ELSE IF "month" \in a.frac \/ a.month < 1 \/ a.month > 12
         THEN "Month must be between 1 and 12."
    ELSE IF "day" \in a.frac \/ a.day < 1 \/ a.day > 31
         THEN "Day must be between 1 and 31."
    ELSE IF a.day > daysInMonth(a.year, a.month) THEN "Invalid day."
    ELSE ""

afterReformFrom16(year, month, day) ==
    \/ year > 1582
    \/ (year = 1582 /\ month > 10)
    \/ (year = 1582 /\ month = 10 /\ day > 15)

afterReformFrom5(year, month, day) ==
    \/ year > 1582
    \/ (year = 1582 /\ month > 10)
    \/ (year = 1582 /\ month = 10 /\ day >= 5)

\* julian.ts:44-48: the date is on or after 15 October 1582.
afterReform(year, month, day) ==
    \/ year > 1582
    \/ (year = 1582 /\ month > 10)
    \/ (year = 1582 /\ month = 10 /\ day >= 15)

julianDay2JulianForm(year, month, day) ==
    LET y == IF month <= 2 THEN year - 1 ELSE year
        m == IF month <= 2 THEN month + 12 ELSE month
    IN  2 * (Floor365_25(y + 4716) + Floor30_6001(m + 1) + day) - 3049

\* The Gregorian term without the quarter of the centuries.
julianDay2NoQuarterCentury(year, month, day) ==
    LET y == IF month <= 2 THEN year - 1 ELSE year
        m == IF month <= 2 THEN month + 12 ELSE month
        a == y \div 100
        core == Floor365_25(y + 4716) + Floor30_6001(m + 1) + day
    IN  IF afterReform(year, month, day)
        THEN 2 * (core + 2 - a) - 3049
        ELSE 2 * core - 3049

\* julian.ts:33-64, for arguments that passed validation: 2 * JD.
julianDay2(year, month, day) ==
    LET y == IF month <= 2 THEN year - 1 ELSE year
        m == IF month <= 2 THEN month + 12 ELSE month
        a == y \div 100
        b == a \div 4
        c == 2 - a + b
        core == Floor365_25(y + 4716) + Floor30_6001(m + 1) + day
    IN  IF afterReform(year, month, day)
        THEN 2 * (core + c) - 3049
        ELSE 2 * core - 3049

\* julian.ts:11-65
gregorianToJD(a) ==
    LET e == validationError(a)
    IN  IF e # "" THEN [threw |-> TRUE, error |-> e]
        ELSE [threw |-> FALSE, jd |-> julianDay2(a.year, a.month, a.day)]

(***************************************************************************)
(* The calls.                                                              *)
(***************************************************************************)
DateArgs(y, m, d, f) == [year |-> y, month |-> m, day |-> d, frac |-> f]

Call(op, a) == [op |-> op, args |-> a]

Returned(c, r) == [op |-> c.op, args |-> c.args, ret |-> r]

\* Head of the queue is a call of op.
Pending(op) == queue # <<>> /\ Head(queue).op = op

\* The call at the head of the queue returns r.
Return(r) ==
    /\ log' = Append(log, Returned(Head(queue), r))
    /\ queue' = Tail(queue)
    /\ UNCHANGED sky

GregorianToJD ==
    /\ Pending("gregorianToJD")
    /\ Return(gregorianToJD(Head(queue).args))

(***************************************************************************)
(* Inputs.                                                                 *)
(***************************************************************************)
Around(y) == (y - YearSpan)..(y + YearSpan)

\* Leap, century, 400-year, reform and negative years, and their neighbours.
Years ==
    Around(-400) \cup Around(-100) \cup Around(-4) \cup Around(0)
        \cup Around(1582) \cup Around(1900) \cup Around(2000) \cup Around(2024)

Months == 0..13

Days == 0..32

Fracs == SUBSET {"year", "month", "day"}

NoSky == [j \in {} |-> 0]

\* One call of gregorianToJD with any arguments.
InitJD ==
    /\ queue \in {<<Call("gregorianToJD", DateArgs(y, m, d, f))>> :
                    y \in Years, m \in Months, d \in Days, f \in Fracs}
    /\ log = <<>>
    /\ sky = NoSky

NextJD == GregorianToJD

SpecJD == InitJD /\ [][NextJD]_vars

(***************************************************************************)
(* C1.                                                                     *)
(***************************************************************************)
Divides(n, x) == x % n = 0

\* The length of a month by the rule the claim states.
ClaimDaysInMonth(y, m) ==
    IF m = 2
    THEN (IF (Divides(4, y) /\ ~Divides(100, y)) \/ Divides(400, y)
          THEN 29 ELSE 28)
    ELSE IF m \in {4, 6, 9, 11} THEN 30 ELSE 31

ClaimRejects(a) ==
    \/ a.frac # {}
    \/ a.month < 1 \/ a.month > 12
    \/ a.day < 1
    \/ a.day > ClaimDaysInMonth(a.year, a.month)

\* C1: gregorianToJD throws exactly when an argument is not an integer, the
\* month is outside 1..12 or the day is outside 1..daysInMonth(year, month);
\* otherwise it returns a Julian Day.
C1_ThrowsExactlyOnInvalid ==
    \A i \in 1..Len(log) :
        log[i].op = "gregorianToJD" =>
            /\ log[i].ret.threw <=> ClaimRejects(log[i].args)
            /\ ~log[i].ret.threw => log[i].ret.jd \in Int

\* 29 February 1900 was rejected after 29 February 2000 could be accepted:
\* here the call with 1900-02-29 has thrown.
C1_Witness ==
    \E i \in 1..Len(log) :
        /\ log[i].op = "gregorianToJD"
        /\ log[i].args = DateArgs(1900, 2, 29, {})
        /\ log[i].ret.threw

(***************************************************************************)
(* C2.  Two calls of gregorianToJD, the earlier date first.                *)
(***************************************************************************)
\* (y1, m1, d1) is lexicographically earlier than (y2, m2, d2).
Earlier(a, b) ==
    \/ a.year < b.year
    \/ (a.year = b.year /\ a.month < b.month)
    \/ (a.year = b.year /\ a.month = b.month /\ a.day < b.day)

\* The reform year, years with y + 4716 < 0, the years around 0 and 2000.
PairYears ==
    Around(1582) \cup {-4717, -1, 0, 1500, 1600, 2000}

\* The ends of the months and the days around the reform.
BoundaryDays == {1, 4, 5, 14, 15, 16, 28, 29, 30, 31}

PairDates ==
    {DateArgs(y, m, d, {}) : y \in PairYears, m \in 1..12, d \in BoundaryDays}

InitJDPair ==
    /\ queue \in {<<Call("gregorianToJD", p[1]), Call("gregorianToJD", p[2])>> :
                    p \in {q \in PairDates \X PairDates : Earlier(q[1], q[2])}}
    /\ log = <<>>
    /\ sky = NoSky

SpecJDPair == InitJDPair /\ [][NextJD]_vars

\* Both calls of the pair were made and both returned a Julian Day.
BothAccepted ==
    /\ Len(log) = 2
    /\ log[1].op = "gregorianToJD" /\ log[2].op = "gregorianToJD"
    /\ ~log[1].ret.threw /\ ~log[2].ret.threw

\* One of the ten nominal dates 5..14 October 1582.
Nominal1582(a) == a.year = 1582 /\ a.month = 10 /\ a.day \in 5..14

\* C2 as stated: over all accepted dates, the nominal dates 5..14 October
\* 1582 included, the earlier date has the smaller Julian Day.
C2_StrictlyIncreasingAll ==
    (BothAccepted /\ Earlier(log[1].args, log[2].args))
        => log[1].ret.jd < log[2].ret.jd

\* C2 as amended: over the accepted dates other than the nominal dates
\* 5..14 October 1582, the earlier date has the smaller Julian Day.
C2_StrictlyIncreasing ==
    (/\ BothAccepted
     /\ Earlier(log[1].args, log[2].args)
     /\ ~Nominal1582(log[1].args)
     /\ ~Nominal1582(log[2].args))
        => log[1].ret.jd < log[2].ret.jd

\* 4 October 1582 (Julian form) and 15 October 1582 (Gregorian form) were
\* converted, one day apart.
C2_Witness ==
    /\ BothAccepted
    /\ log[1].args = DateArgs(1582, 10, 4, {})
    /\ log[2].args = DateArgs(1582, 10, 15, {})
    /\ log[2].ret.jd = log[1].ret.jd + 2

(***************************************************************************)
(* The sky: what the astronomical series return at the instants a call     *)
(* looks at, for the Julian Day jd (2 * JD) the call was given.            *)
(***************************************************************************)
SkyRecord(ls, ss, ll, sl, n1, n2) ==
    [lunarSunrise |-> ls, solarSunrise |-> ss,
     lunarLate |-> ll, solarLate |-> sl,
     solarLastNM |-> n1, solarNextNM |-> n2]

\* conversion.ts:78: getLunarLongitude(getSunriseJD(jd))
lunarLongAtSunrise(jd) == sky[jd].lunarSunrise

\* conversion.ts:79: getSolarLongitude(getSunriseJD(jd))
solarLongAtSunrise(jd) == sky[jd].solarSunrise

\* conversion.ts:83: getLunarLongitude(jd + 0.95)
lunarLongAtMidnight(jd) == sky[jd].lunarLate

\* conversion.ts:84: getSolarLongitude(jd + 0.95)
solarLongAtMidnight(jd) == sky[jd].solarLate

(***************************************************************************)
(* calendar/conversion.ts: the tithi.                                      *)
(***************************************************************************)
\* Math.ceil(e / 12)
CeilDiv12(e) == -((-e) \div 12)

\* conversion.ts:80, 85: (lunar - solar + 360) % 360
elongation(lunar, solar) == JsRem(lunar - solar + 360, 360)

\* The candidate at JD + 0.95 alone.
calculateTithiLateOnly(jd) ==
    CeilDiv12(elongation(lunarLongAtMidnight(jd), solarLongAtMidnight(jd)))

\* conversion.ts:73-92
calculateTithi(jd) ==
    LET elongationAtSunrise ==
            elongation(lunarLongAtSunrise(jd), solarLongAtSunrise(jd))
        tithiAtSunrise == CeilDiv12(elongationAtSunrise)
        elongationAtMidnight ==
            elongation(lunarLongAtMidnight(jd), solarLongAtMidnight(jd))
        tithiAtMidnight == CeilDiv12(elongationAtMidnight)
    IN  IF tithiAtMidnight > tithiAtSunrise
        THEN tithiAtMidnight
        ELSE tithiAtSunrise

\* values.ts:160-176, the Devanagari names transliterated.
TITHI_NAMES ==
    <<"paru", "dwitiya", "tritiya", "chaturthi", "panchami", "shashthi",
      "saptami", "ashtami", "navami", "dashami", "ekadashi", "dwadashi",
      "trayodashi", "chaturdashi", "punhi">>

\* TITHI_NAMES[i] of JavaScript, i counted from 0.
TithiNameAt(i) ==
    IF i \in 0..(Len(TITHI_NAMES) - 1) THEN TITHI_NAMES[i + 1]
    ELSE "undefined"

tithiTypeAbove2(tithi, prevTithi) ==
    IF tithi = prevTithi THEN "8"
    ELSE IF tithi > prevTithi + 2 THEN "9"
    ELSE "0"

\* The difference taken around the cycle of 30.
tithiTypeCyclic(tithi, prevTithi) ==
    IF tithi = prevTithi THEN "8"
    ELSE IF (tithi - prevTithi) % 30 \in 2..15 THEN "9"
    ELSE "0"

\* conversion.ts:177-179
tithiType(tithi, prevTithi) ==
    IF tithi = prevTithi THEN "8"
    ELSE IF tithi >= prevTithi + 2 THEN "9"
    ELSE "0"

\* The day classified against itself instead of the day before.
convertToTithiAgainstToday(a) ==
    LET g == gregorianToJD(a)
        jd == g.jd
        tithi == calculateTithi(jd)
        prevTithi == calculateTithi(jd)
        adjustedTithi == JsRem(tithi - 1, 15) + 1
        paksha == IF tithi <= 15 THEN "thwa" ELSE "ga"
        name == IF adjustedTithi = 15 /\ paksha = "ga" THEN "ammai"
                ELSE TithiNameAt(adjustedTithi - 1)
    IN  IF g.threw THEN g
        ELSE [threw |-> FALSE,
              number |-> tithi,
              adjustedNumber |-> adjustedTithi,
              paksha |-> paksha,
              name |-> name,
              type |-> tithiType(tithi, prevTithi)]

\* conversion.ts:173-191; paksha "thwa" is the waxing glyph, "ga" the waning.
convertToTithi(a) ==
    LET g == gregorianToJD(a)
        jd == g.jd
        tithi == calculateTithi(jd)
        prevTithi == calculateTithi(jd - 2)
        adjustedTithi == JsRem(tithi - 1, 15) + 1
        paksha == IF tithi <= 15 THEN "thwa" ELSE "ga"
        name == IF adjustedTithi = 15 /\ paksha = "ga" THEN "ammai"
                ELSE TithiNameAt(adjustedTithi - 1)
    IN  IF g.threw THEN g
        ELSE [threw |-> FALSE,
              number |-> tithi,
              adjustedNumber |-> adjustedTithi,
              paksha |-> paksha,
              name |-> name,
              type |-> tithiType(tithi, prevTithi)]

CalculateTithi ==
    /\ Pending("calculateTithi")
    /\ Return([threw |-> FALSE, number |-> calculateTithi(Head(queue).args.jd)])

ConvertToTithi ==
    /\ Pending("convertToTithi")
    /\ Return(convertToTithi(Head(queue).args))

(***************************************************************************)
(* Inputs of the tithi calls.                                              *)
(***************************************************************************)
\* Longitudes in [0, 360): the sector boundaries and points between them.
Longitudes == {(12 * k) \div SectorSamples : k \in 0..(30 * SectorSamples - 1)}

\* Every pair of elongations, under three solar longitudes.
RichTithiSky ==
    {SkyRecord((e1 + s) % 360, s, (e2 + s) % 360, s, 0, 0) :
        e1 \in Longitudes, e2 \in Longitudes, s \in {0, 90, 348}}

\* Elongations at and next to the ends of the cycle and of the waxing half.
EdgeElongations == {0, 6, 12, 18, 174, 180, 186, 342, 348, 354}

\* The late elongation equal to the one at sunrise or one tithi ahead of it.
SparseTithiSky ==
    {SkyRecord((p[1] + 90) % 360, 90, (p[2] + 91) % 360, 91, 0, 0) :
        p \in {q \in EdgeElongations \X EdgeElongations :
                 q[2] \in {q[1], (q[1] + 12) % 360}}}

\* The Julian Days convertToTithi(a) evaluates the series at.
TithiDays(a) ==
    IF gregorianToJD(a).threw THEN {}
    ELSE {gregorianToJD(a).jd, gregorianToJD(a).jd - 2}

TithiDates ==
    {DateArgs(2000, 1, 1, {}), DateArgs(2024, 4, 14, {}),
     DateArgs(2023, 2, 29, {}), DateArgs(2024, 4, 14, {"day"})}

\* One call of calculateTithi, or one call of convertToTithi.
InitTithi ==
    /\ log = <<>>
    /\ \/ /\ queue = <<Call("calculateTithi", [jd |-> julianDay2(2000, 1, 1)])>>
          /\ sky \in [{julianDay2(2000, 1, 1)} -> RichTithiSky]
       \/ \E a \in TithiDates :
            /\ queue = <<Call("convertToTithi", a)>>
            /\ sky \in [TithiDays(a) -> SparseTithiSky]

NextTithi == CalculateTithi \/ ConvertToTithi

SpecTithi == InitTithi /\ [][NextTithi]_vars

(***************************************************************************)
(* C3, C4.                                                                 *)
(***************************************************************************)
\* The entry is a call of calculateTithi or of convertToTithi that returned.
TithiEntry(e) == e.op \in {"calculateTithi", "convertToTithi"} /\ ~e.ret.threw

\* C3: the tithi number calculateTithi and convertToTithi return is in 1..30
\* for every pair of elongations in [0, 360) at sunrise and at JD + 0.95.
C3_TithiNumberIn1To30 ==
    \A i \in 1..Len(log) :
        TithiEntry(log[i]) => log[i].ret.number \in 1..30

\* C4: for every tithi convertToTithi returns, adjustedNumber is in 1..15 and
\* equals ((number - 1) mod 15) + 1, and paksha is the waxing glyph exactly
\* when number <= 15.
C4_AdjustedIn1To15 ==
    \A i \in 1..Len(log) :
        (log[i].op = "convertToTithi" /\ ~log[i].ret.threw) =>
            /\ log[i].ret.adjustedNumber \in 1..15
            /\ log[i].ret.adjustedNumber = ((log[i].ret.number - 1) % 15) + 1
            /\ log[i].ret.paksha = "thwa" <=> log[i].ret.number <= 15

(***************************************************************************)
(* C7.  convertToTithi of a date and of the accepted date before it.       *)
(***************************************************************************)
\* The accepted date that immediately precedes the accepted date a.
PrevDate(a) ==
    IF a.day > 1 THEN DateArgs(a.year, a.month, a.day - 1, {})
    ELSE IF a.month > 1
         THEN DateArgs(a.year, a.month - 1,
                       ClaimDaysInMonth(a.year, a.month - 1), {})
    ELSE DateArgs(a.year - 1, 12, 31, {})

\* Days inside months, first days of months and years, 1 March of leap,
\* common and century years on both sides of the reform, and the reform.
ConsecutiveDates ==
    {DateArgs(2024, 4, 14, {}), DateArgs(2024, 3, 1, {}),
     DateArgs(2023, 3, 1, {}), DateArgs(1900, 3, 1, {}),
     DateArgs(1583, 1, 1, {}), DateArgs(1582, 10, 16, {}),
     DateArgs(1582, 10, 15, {}), DateArgs(1582, 10, 5, {}),
     DateArgs(1500, 3, 1, {}), DateArgs(1200, 3, 1, {}),
     DateArgs(1501, 3, 1, {})}

InitTithiDays ==
    /\ log = <<>>
    /\ \E d \in ConsecutiveDates :
         /\ queue = <<Call("convertToTithi", PrevDate(d)),
                      Call("convertToTithi", d)>>
         /\ sky \in [TithiDays(PrevDate(d)) \cup TithiDays(d) -> SparseTithiSky]

NextTithiDays == ConvertToTithi

SpecTithiDays == InitTithiDays /\ [][NextTithiDays]_vars

\* convertToTithi has returned for a date P and then for the date D after it.
ConsecutiveDays ==
    /\ Len(log) = 2
    /\ log[1].op = "convertToTithi" /\ log[2].op = "convertToTithi"
    /\ ~log[1].ret.threw /\ ~log[2].ret.threw
    /\ log[1].args = PrevDate(log[2].args)

\* The type of D is repeated when its number is that of P, and skipped when
\* its number is that of P plus two or more.
TypeFollowsPreviousDay ==
    /\ log[2].ret.number = log[1].ret.number => log[2].ret.type = "8"
    /\ log[2].ret.number >= log[1].ret.number + 2 => log[2].ret.type = "9"

\* The Julian Day of P is one day below that of D.
OneDayApart ==
    gregorianToJD(log[1].args).jd = gregorianToJD(log[2].args).jd - 2

\* C7 as stated: for every accepted date D and the accepted date P before
\* it, the type of D is repeated when the two numbers are equal and skipped
\* when the number of D is at least two above that of P.
C7_TypeFromPrecedingDateAll ==
    ConsecutiveDays => TypeFollowsPreviousDay

\* C7 as amended: the same, for the dates D whose preceding accepted date P
\* has the Julian Day of D minus one.
C7_TypeFromPrecedingDate ==
    (ConsecutiveDays /\ OneDayApart) => TypeFollowsPreviousDay

\* For 1 March 2024 after 29 February 2024 the tithi stayed the same and was
\* reported as repeated.
C7_Witness ==
    /\ ConsecutiveDays /\ OneDayApart
    /\ log[2].args = DateArgs(2024, 3, 1, {})
    /\ log[2].ret.number = log[1].ret.number
    /\ log[2].ret.type = "8"

(***************************************************************************)
(* calendar/conversion.ts: the month.                                      *)
(***************************************************************************)
\* values.ts:142-155, the names without diacritics.
NS_MONTHS ==
    <<[name |-> "Kachhala", nepali |-> "kachhala", startDeg |-> 210],
      [name |-> "Thinla", nepali |-> "thinla", startDeg |-> 240],
      [name |-> "Pwanhela", nepali |-> "pohela", startDeg |-> 270],
      [name |-> "Sila", nepali |-> "sila", startDeg |-> 300],
      [name |-> "Chila", nepali |-> "chila", startDeg |-> 330],
      [name |-> "Chaula", nepali |-> "chaula", startDeg |-> 0],
      [name |-> "Bachhala", nepali |-> "bachhala", startDeg |-> 30],
      [name |-> "Tachhala", nepali |-> "tachhala", startDeg |-> 60],
      [name |-> "Dila", nepali |-> "dila", startDeg |-> 90],
      [name |-> "Gunla", nepali |-> "gunla", startDeg |-> 120],
      [name |-> "Yanla", nepali |-> "yanla", startDeg |-> 150],
      [name |-> "Kaula", nepali |-> "kaula", startDeg |-> 180]>>

sectorMatchesNoWrap(i, solarLong) ==
    LET nextIdx == (i + 1) % Len(NS_MONTHS)
        startDeg == NS_MONTHS[i + 1].startDeg
        endDeg == NS_MONTHS[nextIdx + 1].startDeg
    IN  solarLong >= startDeg /\ solarLong < endDeg

\* conversion.ts:30-38: the test of sector i (counted from 0) in the loop.
sectorMatches(i, solarLong) ==
    LET nextIdx == (i + 1) % Len(NS_MONTHS)
        startDeg == NS_MONTHS[i + 1].startDeg
        endDeg == NS_MONTHS[nextIdx + 1].startDeg
    IN  IF endDeg > startDeg
        THEN solarLong >= startDeg /\ solarLong < endDeg
        ELSE solarLong >= startDeg \/ solarLong < endDeg

RECURSIVE monthLoop(_, _)
\* conversion.ts:29-41: the loop from i on, then the default.  byDefault
\* records that the loop ended without a match.
monthLoop(solarLong, i) ==
    IF i >= Len(NS_MONTHS) THEN [number |-> 1, byDefault |-> TRUE]
    ELSE IF sectorMatches(i, solarLong)
         THEN [number |-> i + 1, byDefault |-> FALSE]
    ELSE monthLoop(solarLong, i + 1)

\* conversion.ts:26-27: getSolarLongitude(findLastNewMoonJD(jd))
solarLongAtLastNewMoon(jd) == sky[jd].solarLastNM

\* conversion.ts:138-139: the same for jd = findNextNewMoonJD(jd)
solarLongAtNextLunation(jd) == sky[jd].solarNextNM

\* conversion.ts:25-42
calculateNSMonth(jd) == monthLoop(solarLongAtLastNewMoon(jd), 0)

checkForAnalaAndNhalaCyclic(thisMonth, nextMonth) ==
    [anala |-> IF thisMonth = nextMonth THEN 1 ELSE 0,
     nhala |-> IF (nextMonth - thisMonth) % 12 = 2 THEN 1 ELSE 0]

\* conversion.ts:103-111
checkForAnalaAndNhala(thisMonth, nextMonth) ==
    [anala |-> IF thisMonth = nextMonth THEN 1 ELSE 0,
     nhala |-> IF nextMonth - thisMonth = 2 THEN 1 ELSE 0]

\* conversion.ts:134-151
convertToNSMonth(a) ==
    LET g == gregorianToJD(a)
        jd == g.jd
        nsMonth == calculateNSMonth(jd).number
        nextNsMonth == monthLoop(solarLongAtNextLunation(jd), 0).number
        flags == checkForAnalaAndNhala(nsMonth, nextNsMonth)
        monthInfo == NS_MONTHS[nsMonth]
    IN  IF g.threw THEN g
        ELSE [threw |-> FALSE,
              number |-> nsMonth,
              name |-> monthInfo.name,
              nepaliName |-> monthInfo.nepali,
              anala |-> flags.anala,
              nhala |-> flags.nhala]

CalculateNSMonth ==
    /\ Pending("calculateNSMonth")
    /\ Return([threw |-> FALSE] @@ calculateNSMonth(Head(queue).args.jd))

ConvertToNSMonth ==
    /\ Pending("convertToNSMonth")
    /\ Return(convertToNSMonth(Head(queue).args))

\* Every whole degree of [0, 360).
Degrees == 0..359

MonthDates ==
    {DateArgs(2024, 4, 14, {}), DateArgs(2024, 13, 1, {})}

\* The Julian Day convertToNSMonth(a) evaluates the series at.
MonthDays(a) ==
    IF gregorianToJD(a).threw THEN {} ELSE {gregorianToJD(a).jd}

\* One call of calculateNSMonth, or one call of convertToNSMonth.
InitMonth ==
    /\ log = <<>>
    /\ \/ /\ queue = <<Call("calculateNSMonth", [jd |-> julianDay2(2024, 4, 14)])>>
          /\ sky \in [{julianDay2(2024, 4, 14)} ->
                        {SkyRecord(0, 0, 0, 0, l, 0) : l \in Degrees}]
       \/ \E a \in MonthDates :
            /\ queue = <<Call("convertToNSMonth", a)>>
            /\ sky \in [MonthDays(a) ->
                          {SkyRecord(0, 0, 0, 0, l, n) :
                              l \in Longitudes, n \in Longitudes}]

NextMonth == CalculateNSMonth \/ ConvertToNSMonth

SpecMonth == InitMonth /\ [][NextMonth]_vars

(***************************************************************************)
(* C8, C9.                                                                 *)
(***************************************************************************)
\* The start of sector k (counted from 1) as the claim lists the starts:
\* 210, 240, 270, 300, 330, 0, 30, ..., 180.
ClaimStartDeg(k) == (210 + 30 * (k - 1)) % 360

\* Longitude l lies in the thirty degrees that begin at the start of k.
ClaimInSector(k, l) == ((l - ClaimStartDeg(k)) % 360) < 30

ClaimSectorOf(l) == CHOOSE k \in 1..12 : ClaimInSector(k, l)

C9_LeapAndSkippedFlags ==
    \A i \in 1..Len(log) :
        (log[i].op = "convertToNSMonth" /\ ~log[i].ret.threw) =>
            LET jd == gregorianToJD(log[i].args).jd
                current == log[i].ret.number
                next == ClaimSectorOf(sky[jd].solarNextNM)
            IN  /\ current = ClaimSectorOf(sky[jd].solarLastNM)
                /\ log[i].ret.anala = (IF next = current THEN 1 ELSE 0)
                /\ log[i].ret.nhala = (IF next - current = 2 THEN 1 ELSE 0)
                /\ ~(log[i].ret.anala = 1 /\ log[i].ret.nhala = 1)

\* The current month was 11 and the next 1: neither flag was set.
C9_Witness ==
    \E i \in 1..Len(log) :
        /\ log[i].op = "convertToNSMonth" /\ ~log[i].ret.threw
        /\ log[i].ret.number = 11
        /\ ClaimSectorOf(sky[gregorianToJD(log[i].args).jd].solarNextNM) = 1
        /\ log[i].ret.anala = 0 /\ log[i].ret.nhala = 0

(***************************************************************************)
(* calendar/conversion.ts: the year.                                       *)
(***************************************************************************)
\* values.ts:93: KALIYUGA_EPOCH_JD = 588465.5, as 2 * JD.
KALIYUGA_EPOCH_JD == 1176931

\* k * TROPICAL_YEAR <= x / 2, for TROPICAL_YEAR = 365.25636 (values.ts:94)
\* and x in half days: 730.51272 * k <= x, kept within 32 bits.
YearsAtMost(k, x) == 51272 * k <= (x - 730 * k) * 100000

\* Math.floor((x / 2) / TROPICAL_YEAR).  The quotient of the doubles is the
\* exact one except within 1e-12 of an integer, which no x here comes to.
FloorTropicalYears(x) ==
    LET lo == IF x >= 0 THEN x \div 731 ELSE x \div 730
        hi == IF x >= 0 THEN x \div 730 ELSE x \div 731
    IN  CHOOSE k \in (lo - 1)..(hi + 1) :
            YearsAtMost(k, x) /\ ~YearsAtMost(k + 1, x)

\* conversion.ts:51-57; jd is 2 * JD.
calculateNSYear(jd, nsMonth) ==
    LET daysSinceKY == jd - KALIYUGA_EPOCH_JD
        kyYear == FloorTropicalYears(daysSinceKY + 2 * ((10 - nsMonth) * 30))
        sakaYear == kyYear - 3179
        offset == 2
    IN  sakaYear - 800 - offset

CalculateNSYear ==
    /\ Pending("calculateNSYear")
    /\ Return([threw |-> FALSE,
               nsYear |-> calculateNSYear(Head(queue).args.jd,
                                          Head(queue).args.nsMonth)])

\* One call of calculateNSYear for a Julian Day gregorianToJD returns.
InitYear ==
    /\ log = <<>>
    /\ sky = NoSky
    /\ queue \in {<<Call("calculateNSYear",
                         [jd |-> julianDay2(y, d[1], d[2]), nsMonth |-> m])>> :
                    y \in Years, d \in {<<1, 1>>, <<4, 14>>, <<10, 20>>},
                    m \in 1..12}

NextYear == CalculateNSYear

SpecYear == InitYear /\ [][NextYear]_vars

(***************************************************************************)
(* C10.                                                                    *)
(***************************************************************************)
\* The month number under which NS_MONTHS lists Yanla.
YanlaNumber == CHOOSE m \in 1..Len(NS_MONTHS) : NS_MONTHS[m].name = "Yanla"

\* C10: for 2024-04-14 (julianDay 2460414.5) and the month number of Yanla,
\* calculateNSYear returns 1144, a non-negative year.
C10_YanlaYearIs1144 ==
    \A i \in 1..Len(log) :
        (/\ log[i].op = "calculateNSYear"
         /\ log[i].args.jd = 2 * 2460414 + 1
         /\ log[i].args.nsMonth = YanlaNumber)
            => log[i].ret.nsYear = 1144 /\ log[i].ret.nsYear >= 0

(***************************************************************************)
(* calendar/conversion.ts: the whole date and its formats.                 *)
(***************************************************************************)
\* conversion.ts:201-212
getAstronomicalDetails(a) ==
    LET g == gregorianToJD(a)
        jd == g.jd
        solarLong == solarLongAtSunrise(jd)
        lunarLong == lunarLongAtSunrise(jd)
    IN  IF g.threw THEN g
        ELSE [threw |-> FALSE,
              solarLongitude |-> solarLong,
              lunarLongitude |-> lunarLong,
              elongation |-> elongation(lunarLong, solarLong)]

\* A conversion that remembers: the tithi is classified against the tithi
\* of the conversion made before this one, when there is one.
convertToNSDateRemembering(a) ==
    LET g == gregorianToJD(a)
        jd == g.jd
        nsMonth == convertToNSMonth(a)
        nsTithi == convertToTithi(a)
        astro == getAstronomicalDetails(a)
        last == log[Len(log)]
        remembered ==
            IF log # <<>> /\ last.op = "convertToNSDate" /\ ~last.ret.threw
            THEN [nsTithi EXCEPT
                    !.type = tithiType(nsTithi.number, last.ret.tithi.number)]
            ELSE nsTithi
    IN  IF g.threw THEN g
        ELSE [threw |-> FALSE,
              nsYear |-> calculateNSYear(jd, nsMonth.number),
              month |-> nsMonth,
              tithi |-> remembered,
              astronomical |-> astro,
              julianDay |-> jd]

\* conversion.ts:222-235
convertToNSDate(a) ==
    LET g == gregorianToJD(a)
        jd == g.jd
        nsMonth == convertToNSMonth(a)
        nsTithi == convertToTithi(a)
        astro == getAstronomicalDetails(a)
    IN  IF g.threw THEN g
        ELSE [threw |-> FALSE,
              nsYear |-> calculateNSYear(jd, nsMonth.number),
              month |-> nsMonth,
              tithi |-> nsTithi,
              astronomical |-> astro,
              julianDay |-> jd]

\* conversion.ts:153-159; jd is 2 * JD, so Math.floor(jd + 1.5) is
\* (jd + 3) \div 2, and `|| 7` turns a remainder of 0 into 7.
getWeekday(jd) ==
    LET z == (jd + 3) \div 2
        r == JsRem(JsRem(z, 7) + 7, 7)
    IN  IF r = 0 THEN 7 ELSE r

\* The characters of a string are held as a sequence of one-character strings.
DigitChar(d) == <<"0", "1", "2", "3", "4", "5", "6", "7", "8", "9">>[d + 1]

RECURSIVE Digits(_)
\* The decimal digits of n >= 0.
Digits(n) ==
    IF n < 10 THEN <<DigitChar(n)>>
    ELSE Append(Digits(n \div 10), DigitChar(n % 10))

\* String(n) of JavaScript for an integer n of magnitude below 1e21.
NumberToString(n) == IF n < 0 THEN <<"-">> \o Digits(-n) ELSE Digits(n)

\* s.padStart(2, '0')
PadStart2(s) == IF Len(s) < 2 THEN <<"0">> \o s ELSE s

\* conversion.ts:243-253.  numerical is a sequence of characters; readable
\* a sequence of characters and of whole names.
formatNSDate(date) ==
    LET monthSuffix == IF date.month.anala # 0 THEN "3"
                       ELSE IF date.month.nhala # 0 THEN "4"
                       ELSE "0"
        paksha == IF date.tithi.paksha = "thwa" THEN "1" ELSE "2"
        tithiPadded == PadStart2(NumberToString(date.tithi.adjustedNumber))
        weekday == getWeekday(date.julianDay)
    IN  [threw |-> FALSE,
         numerical |->
             NumberToString(date.nsYear) \o <<".">>
                 \o NumberToString(date.month.number)
                 \o <<monthSuffix, paksha, ".">>
                 \o tithiPadded
                 \o <<date.tithi.type>>
                 \o NumberToString(weekday),
         readable |->
             NumberToString(date.nsYear) \o <<" ", date.month.nepaliName>>
                 \o <<date.tithi.paksha, " ", date.tithi.name, " ", "-", " ">>
                 \o NumberToString(date.tithi.adjustedNumber)]

ConvertToNSDate ==
    /\ Pending("convertToNSDate")
    /\ Return(convertToNSDate(Head(queue).args))

\* formatNSDate(date) for the date the call before it returned.
FormatNSDate ==
    /\ Pending("formatNSDate")
    /\ log # <<>>
    /\ log[Len(log)].op = "convertToNSDate"
    /\ ~log[Len(log)].ret.threw
    /\ Return(formatNSDate(log[Len(log)].ret))

(***************************************************************************)
(* Inputs of the date calls.                                               *)
(***************************************************************************)
\* Years before and after the epoch of the era, and of today.
EraYears == Around(-3200) \cup Around(0) \cup Around(881) \cup Around(2000)
                \cup Around(2024)

FormatDates ==
    {DateArgs(y, d[1], d[2], {}) :
        y \in EraYears, d \in {<<1, 1>>, <<4, 14>>, <<10, 20>>, <<2, 30>>}}

\* The late elongation that at sunrise or one tithi ahead of it, the month
\* at the next new moon the same, the next, or the one after it.
DateSkyToday ==
    {SkyRecord((e + 90) % 360, 90, (e + d + 91) % 360, 91, l, (l + n) % 360) :
        e \in EdgeElongations, d \in {0, 12},
        l \in {0, 150, 180, 330}, n \in {0, 30, 60}}

DateSkyYesterday ==
    {SkyRecord((e + 90) % 360, 90, (e + 91) % 360, 91, 0, 0) :
        e \in {0, 174, 354}}

\* The skies over the Julian Days convertToNSDate(a) looks at.
DateSkies(a) ==
    IF gregorianToJD(a).threw THEN {NoSky}
    ELSE LET jd == gregorianToJD(a).jd
         IN  {(jd :> t) @@ ((jd - 2) :> y) :
                 t \in DateSkyToday, y \in DateSkyYesterday}

\* convertToNSDate of a date, and formatNSDate of the result when there is one.
InitDate ==
    /\ log = <<>>
    /\ \E a \in FormatDates :
         /\ queue = IF gregorianToJD(a).threw
                    THEN <<Call("convertToNSDate", a)>>
                    ELSE <<Call("convertToNSDate", a),
                           Call("formatNSDate", [date |-> "result"])>>
         /\ sky \in DateSkies(a)

NextDate == ConvertToNSDate \/ FormatNSDate

SpecDate == InitDate /\ [][NextDate]_vars

(***************************************************************************)
(* C5, C6.                                                                 *)
(***************************************************************************)
\* convertToNSDate returned a date and formatNSDate has formatted it.
Formatted ==
    /\ Len(log) = 2
    /\ log[1].op = "convertToNSDate" /\ ~log[1].ret.threw
    /\ log[2].op = "formatNSDate"

\* The day of the week of a Gregorian date, 0 = Sunday .. 6 = Saturday, from
\* the day count of the Gregorian calendar (2000-01-01 is a Saturday).
DayOfWeek(a) ==
    LET y == IF a.month < 3 THEN a.year - 1 ELSE a.year
        t == <<0, 3, 2, 5, 0, 3, 5, 1, 4, 6, 2, 4>>[a.month]
    IN  (y + (y \div 4) - (y \div 100) + (y \div 400) + t + a.day) % 7

\* C5: the weekday digit of a date on or after 15 October 1582 is in 1..7
\* and is 1 for a Sunday, 2 for a Monday, ..., 7 for a Saturday.
C5_WeekdayDigitSundayIs1 ==
    (Formatted /\ afterReform(log[1].args.year, log[1].args.month,
                              log[1].args.day))
        => LET digit == log[2].ret.numerical[Len(log[2].ret.numerical)]
           IN  /\ digit \in {DigitChar(w) : w \in 1..7}
               /\ digit = DigitChar(DayOfWeek(log[1].args) + 1)

DigitChars == {DigitChar(d) : d \in 0..9}

\* The index of the first "." in s, 0 when there is none.
FirstDot(s) ==
    IF \E i \in 1..Len(s) : s[i] = "."
    THEN CHOOSE i \in 1..Len(s) :
            s[i] = "." /\ \A j \in 1..(i - 1) : s[j] # "."
    ELSE 0

\* s is digits, ".", 1-2 digits, [034], [12], ".", 2 digits, [089], digit.
HasNumericalShape(s) ==
    LET dot == FirstDot(s)
        year == SubSeq(s, 1, dot - 1)
        rest == SubSeq(s, dot + 1, Len(s))
        n == Len(rest)
    IN  /\ dot > 1
        /\ \A i \in 1..Len(year) : year[i] \in DigitChars
        /\ n \in {8, 9}
        /\ \A i \in 1..(n - 7) : rest[i] \in DigitChars
        /\ rest[n - 6] \in {"0", "3", "4"}
        /\ rest[n - 5] \in {"1", "2"}
        /\ rest[n - 4] = "."
        /\ rest[n - 3] \in DigitChars /\ rest[n - 2] \in DigitChars
        /\ rest[n - 1] \in {"0", "8", "9"}
        /\ rest[n] \in DigitChars

\* C6: for every accepted date of any integer year, the numerical format is
\* the year in digits without a sign, ".", the month in 1-2 digits, a suffix
\* in {0,3,4}, a paksha digit in {1,2}, ".", two digits of adjusted tithi, a
\* type digit in {0,8,9} and one weekday digit.
C6_NumericalShape ==
    Formatted => HasNumericalShape(log[2].ret.numerical)

(***************************************************************************)
(* C11, C12.  The anchors of gregorianToJD.                                *)
(***************************************************************************)
\* values.ts:89: J2000 = 2451545.0, as 2 * JD.
J2000 == 4903090

\* The entry is a call of gregorianToJD with the integers y, m, d.
JDCallOf(e, y, m, d) ==
    e.op = "gregorianToJD" /\ e.args = DateArgs(y, m, d, {})

\* C11: gregorianToJD(2000, 1, 1), the midnight that begins 1 January 2000,
\* plus half a day is the constant J2000 = 2451545.0.
C11_J2000Anchor ==
    \A i \in 1..Len(log) :
        JDCallOf(log[i], 2000, 1, 1) =>
            /\ ~log[i].ret.threw
            /\ log[i].ret.jd + 1 = J2000

\* gregorianToJD(2000, 1, 1) has returned 2451544.5.
C11_Witness ==
    \E i \in 1..Len(log) :
        /\ JDCallOf(log[i], 2000, 1, 1)
        /\ ~log[i].ret.threw
        /\ log[i].ret.jd = 4903089

\* 2 * JD of the claim's uncorrected Julian form: floor(365.25 (y + 4716))
\* + floor(30.6001 (m + 1)) + d - 1524.5, January and February counted as
\* months 13 and 14 of the year before.
ClaimJulianForm2(year, month, day) ==
    LET y == IF month <= 2 THEN year - 1 ELSE year
        m == IF month <= 2 THEN month + 12 ELSE month
    IN  2 * (((1461 * (y + 4716)) \div 4) + ((306001 * (m + 1)) \div 10000)
                + day) - 3049

\* 2 * JD of the claim's Gregorian form: the Julian form plus the term
\* 2 - a + floor(a / 4), a the century of the year.
ClaimGregorianForm2(year, month, day) ==
    LET y == IF month <= 2 THEN year - 1 ELSE year
        a == y \div 100
    IN  ClaimJulianForm2(year, month, day) + 2 * (2 - a + (a \div 4))

\* The date is later than 15 October 1582.
After15Oct1582(a) == Earlier(DateArgs(1582, 10, 15, {}), a)

\* C12: gregorianToJD raises nothing for the days 4..15 of October 1582;
\* the days 4..14 come out in the uncorrected Julian form, and day 15 and
\* every accepted later date in the form with the Gregorian correction.
C12_ReformBoundaryAccepted ==
    \A i \in 1..Len(log) :
        LET a == log[i].args
            r == log[i].ret
        IN  (log[i].op = "gregorianToJD" /\ a.frac = {}) =>
              /\ (a.year = 1582 /\ a.month = 10 /\ a.day \in 4..14) =>
                    /\ ~r.threw
                    /\ r.jd = ClaimJulianForm2(a.year, a.month, a.day)
              /\ (a.year = 1582 /\ a.month = 10 /\ a.day = 15) =>
                    /\ ~r.threw
                    /\ r.jd = ClaimGregorianForm2(a.year, a.month, a.day)
              /\ (After15Oct1582(a) /\ ~r.threw) =>
                    r.jd = ClaimGregorianForm2(a.year, a.month, a.day)

\* 10 October 1582, a date of neither calendar, was accepted and came out
\* in the Julian form, 2299165.5.
C12_Witness ==
    \E i \in 1..Len(log) :
        /\ JDCallOf(log[i], 1582, 10, 10)
        /\ ~log[i].ret.threw
        /\ log[i].ret.jd = 4598331

(***************************************************************************)
(* The longitude series (getSolarLongitude, getLunarLongitude).            *)
(* The raw sum of a series, before it is brought into one turn, is read    *)
(* from the sky; what the functions do with it is modelled here.           *)
(***************************************************************************)
\* The sum L + C of getSolarLongitude at jd.
solarSeries(jd) == sky[jd].solarRaw

\* The sum L + Ev - Ae + V + A1 + ... + A5 of getLunarLongitude at jd.
lunarSeries(jd) == sky[jd].lunarRaw

normalizeRemainderOnly(x) == JsRem(x, 360)

\* let longitude = x % 360; if (longitude < 0) longitude += 360
normalizeLongitude(x) ==
    LET longitude == JsRem(x, 360)
    IN  IF longitude < 0 THEN longitude + 360 ELSE longitude

getSolarLongitude(jd) == normalizeLongitude(solarSeries(jd))

getLunarLongitude(jd) == normalizeLongitude(lunarSeries(jd))

GetSolarLongitude ==
    /\ Pending("getSolarLongitude")
    /\ Return([threw |-> FALSE,
               longitude |-> getSolarLongitude(Head(queue).args.jd)])

GetLunarLongitude ==
    /\ Pending("getLunarLongitude")
    /\ Return([threw |-> FALSE,
               longitude |-> getLunarLongitude(Head(queue).args.jd)])

GetAstronomicalDetails ==
    /\ Pending("getAstronomicalDetails")
    /\ Return(getAstronomicalDetails(Head(queue).args))

\* Magnitudes of raw sums: the ends and the inside of each turn.
RawMagnitudes == {360 * k + d : k \in 0..RawTurns, d \in {0, 1, 180, 359}}

\* The sums are below zero before the series cross zero (near J2000) and
\* above it afterwards.
RawSums(a) ==
    IF a.year < 2000 THEN {-r : r \in RawMagnitudes} ELSE RawMagnitudes

\* The sky over one instant: the raw sums s and l there, and the longitudes
\* the two functions make of them.
SeriesSky(s, l) ==
    [solarRaw |-> s, lunarRaw |-> l,
     solarSunrise |-> normalizeLongitude(s),
     lunarSunrise |-> normalizeLongitude(l)]

SeriesDates == {DateArgs(1900, 1, 1, {}), DateArgs(2024, 4, 14, {})}

\* One call of getSolarLongitude, of getLunarLongitude or of
\* getAstronomicalDetails, for a day before J2000 or a day after it.
InitSeries ==
    /\ log = <<>>
    /\ \E a \in SeriesDates :
         LET jd == gregorianToJD(a).jd
         IN  /\ queue \in {<<Call("getSolarLongitude", [jd |-> jd])>>,
                            <<Call("getLunarLongitude", [jd |-> jd])>>,
                            <<Call("getAstronomicalDetails", a)>>}
             /\ sky \in [{jd} -> {SeriesSky(s, l) :
                                     s \in RawSums(a), l \in RawSums(a)}]

NextSeries == GetSolarLongitude \/ GetLunarLongitude \/ GetAstronomicalDetails

SpecSeries == InitSeries /\ [][NextSeries]_vars

(***************************************************************************)
(* C13.                                                                    *)
(***************************************************************************)
\* A longitude of the half-open range [0, 360), in whole degrees.
InOneTurn(x) == x >= 0 /\ x < 360

\* C13: for every Julian Day, of negative and of positive raw sums,
\* getSolarLongitude and getLunarLongitude return a value in [0, 360), and
\* so is the elongation getAstronomicalDetails reports.
C13_LongitudesInOneTurn ==
    \A i \in 1..Len(log) :
        /\ log[i].op \in {"getSolarLongitude", "getLunarLongitude"} =>
              InOneTurn(log[i].ret.longitude)
        /\ (log[i].op = "getAstronomicalDetails" /\ ~log[i].ret.threw) =>
              /\ InOneTurn(log[i].ret.solarLongitude)
              /\ InOneTurn(log[i].ret.lunarLongitude)
              /\ InOneTurn(log[i].ret.elongation)

\* A raw sum of -361 degrees, of a day before J2000, came back from
\* getSolarLongitude as 359.
C13_Witness ==
    \E i \in 1..Len(log) :
        /\ log[i].op = "getSolarLongitude"
        /\ sky[log[i].args.jd].solarRaw = -361
        /\ log[i].ret.longitude = 359

(***************************************************************************)
(* C14.                                                                    *)
(***************************************************************************)
\* The five fields of the date with one space between neighbours, the
\* last two joined by " - ".
ClaimReadable(date) ==
    NumberToString(date.nsYear)
        \o <<" ", date.month.nepaliName, " ", date.tithi.paksha, " ",
              date.tithi.name, " ", "-", " ">>
        \o NumberToString(date.tithi.adjustedNumber)

\* C14: formatNSDate(date).readable is '<year> <monthName> <paksha>
\* <tithiName> - <adjustedNumber>', a single space between each pair of
\* neighbouring fields.
C14_ReadableSingleSpaces ==
    Formatted => log[2].ret.readable = ClaimReadable(log[1].ret)

(***************************************************************************)
(* C15.  The same conversion twice, another call of the engine before,     *)
(* between or after the two.                                               *)
(***************************************************************************)
RepeatedDates == {DateArgs(2024, 4, 15, {}), DateArgs(2023, 2, 29, {})}

OtherDate == DateArgs(2024, 4, 14, {})

\* The calls of the engine that take a date.
DateOps ==
    {"convertToNSDate", "convertToTithi", "convertToNSMonth",
     "gregorianToJD", "getAstronomicalDetails"}

\* The two calls of convertToNSDate(a) with a call x before, between or
\* after them.
Interleavings(a, x) ==
    LET c == Call("convertToNSDate", a)
    IN  {<<x, c, c>>, <<c, x, c>>, <<c, c, x>>}

\* The same with formatNSDate of the result of the call before it.
FormatInterleavings(a) ==
    LET c == Call("convertToNSDate", a)
        f == Call("formatNSDate", [date |-> "result"])
    IN  IF gregorianToJD(a).threw THEN {} ELSE {<<c, f, c>>, <<c, c, f>>}

\* Waxing and waning tithis, a month that is followed by the next one and a
\* month that is followed by the one after the next.
RepeatSkies ==
    {SkyRecord((e + 90) % 360, 90, (e + 91) % 360, 91, m[1], m[2]) :
        e \in {6, 18, 354}, m \in {<<150, 180>>, <<180, 240>>}}

InitRepeat ==
    /\ log = <<>>
    /\ \E a \in RepeatedDates :
         /\ queue \in FormatInterleavings(a) \cup
                UNION {Interleavings(a, Call(op, OtherDate)) : op \in DateOps}
         /\ sky \in [TithiDays(a) \cup TithiDays(OtherDate) -> RepeatSkies]

NextRepeat ==
    \/ ConvertToNSDate
    \/ ConvertToTithi
    \/ ConvertToNSMonth
    \/ GregorianToJD
    \/ GetAstronomicalDetails
    \/ FormatNSDate

SpecRepeat == InitRepeat /\ [][NextRepeat]_vars

FloorRatio(x, n, d1, d2) ==
    LET d == d1 * d2
        q == x \div d
        r == x % d
        a == (r \div d1) * n
        b == (r % d1) * n
    IN  q * n + (a \div d2) + (((a % d2) * d1 + b) \div d)

\* Math.floor((jd / 365.25 + (1 - 1) / 12 - 1900) * 12.3685), which is
\* floor((2 jd - 1387950) * 24737 / 1461000).
lastLunationIndex(jd) == FloorRatio(jd - 1387950, 24737, 1461, 1000)

\* Math.floor((jd / 365.25 + (1 - 1) / 12 - 1900) * 12.985), which is
\* floor((2 jd - 1387950) * 2597 / 146100).
nextLunationIndex(jd) == FloorRatio(jd - 1387950, 2597, 1461, 100)

\* NEW_MOON_REF_JD + k * LUNAR_SYNODIC_MONTH, in hundredths of a day:
\* floor(241502075.933 + k * 2953.0588861).
lastMeanNewMoon(k) ==
    LET p == (k \div 1000) * 588861
    IN  241502075 + 2953 * k + (p \div 10000)
            + (((p % 10000) * 1000 + (k % 1000) * 588861 + 9330000)
                   \div 10000000)

\* 2415020.75933 + 29.5306 * k, in hundredths of a day:
\* floor(241502075.933 + k * 2953.06).
nextMeanNewMoon(k) == 241502075 + 2953 * k + ((60 * k + 933) \div 1000)

\* The 13 periodic terms for the lunation k, in hundredths of a day.
lastCorrection(jd) == sky[jd].correction

\* The same terms for the lunation k - 1.
lastCorrectionOfPrevK(jd) == sky[jd].prevCorrection

\* The terms in t and the 12 periodic terms of findNextNewMoonJD.
nextCorrection(jd) == sky[jd].nextCorrection

\* The closed-form estimate of findLastNewMoonJD with its step back to
\* k - 1 when the estimate is above jd.
lastNewMoonEstimate(jd) ==
    LET k == lastLunationIndex(jd)
        newMoonJD == lastMeanNewMoon(k) + lastCorrection(jd)
    IN  IF newMoonJD > 50 * jd
        THEN lastMeanNewMoon(k - 1) + lastCorrectionOfPrevK(jd)
        ELSE newMoonJD

findNextNewMoonJD(jd) ==
    nextMeanNewMoon(nextLunationIndex(jd)) + nextCorrection(jd)

\* The 0.01 day of prevJD = testJD - 0.01, in units of the loop.
StepUnits == 2953

\* A lunation in the same units: 2953 steps, 29.53 days.
SynodicUnits == StepUnits * StepUnits

\* (getLunarLongitude(t) - getSolarLongitude(t) + 360) % 360 at the estimate
\* plus shift, as the time since the last conjunction.
elongationAt(jd, shift) == (sky[jd].phase + shift) % SynodicUnits

\* Math.abs(elongation) < 0.01 degrees: elongation * 360 / SynodicUnits
\* below 0.01.
converged(e) == e < (SynodicUnits + 35999) \div 36000

loopRunsUntilConverged(i, e) == ~converged(e)

\* The loop goes into its body: i < 10 and no break.
loopRuns(i, e) == i < 10 /\ ~converged(e)

\* The integer nearest to a / b.
RoundDiv(a, b) ==
    IF b > 0 THEN (2 * a + b) \div (2 * b) ELSE (-(2 * a) - b) \div (-(2 * b))

\* One pass of the body: the shift after testJD -= elongation / slope.  The
\* difference of the two elongations is one step or one step less a
\* lunation, so the slope is a whole number of units per unit.
refineStep(jd, shift) ==
    LET elong == elongationAt(jd, shift)
        prevElong == elongationAt(jd, shift - StepUnits)
        slope == (elong - prevElong) \div StepUnits
    IN  shift - RoundDiv(elong, slope)

\* The call at the head of the queue is inside findLastNewMoonJD's loop.
InLoop ==
    /\ Pending("findLastNewMoonJD")
    /\ "i" \in DOMAIN Head(queue)

\* findLastNewMoonJD up to the loop: the estimate, testJD and i = 0.
FindLastNewMoonJD ==
    /\ Pending("findLastNewMoonJD")
    /\ ~InLoop
    /\ queue' = <<[op |-> "findLastNewMoonJD",
                    args |-> Head(queue).args,
                    estimate |-> lastNewMoonEstimate(Head(queue).args.jd),
                    shift |-> 0,
                    i |-> 0]>> \o Tail(queue)
    /\ UNCHANGED <<log, sky>>

\* One iteration of the loop.
Refine ==
    /\ InLoop
    /\ LET c == Head(queue)
       IN  /\ loopRuns(c.i, elongationAt(c.args.jd, c.shift))
           /\ queue' = <<[c EXCEPT !.shift = refineStep(c.args.jd, c.shift),
                                    !.i = c.i + 1]>> \o Tail(queue)
    /\ UNCHANGED <<log, sky>>

\* The loop is left and testJD returned.
FindLastNewMoonReturn ==
    /\ InLoop
    /\ LET c == Head(queue)
       IN  /\ ~loopRuns(c.i, elongationAt(c.args.jd, c.shift))
           /\ Return([threw |-> FALSE, estimate |-> c.estimate,
                      shift |-> c.shift, iterations |-> c.i])

FindNextNewMoonJD ==
    /\ Pending("findNextNewMoonJD")
    /\ Return([threw |-> FALSE, jd |-> findNextNewMoonJD(Head(queue).args.jd)])

(***************************************************************************)
(* Inputs of the new-moon calls.                                           *)
(***************************************************************************)
\* The Julian Days of two days of every year of Years.
NewMoonDays == {julianDay2(y, d[1], d[2]) : y \in Years, d \in {<<1, 1>>, <<4, 14>>}}

\* Sums of the periodic terms, whose amplitudes add up to 0.63 day, in
\* hundredths of a day: for k and for k - 1.
Corrections == {<<-63, -63>>, <<0, 0>>, <<63, 63>>, <<63, -63>>}

\* Times since the last conjunction at the estimate: at it, inside the 0.01
\* day after it, later in the lunation, and just before the next one.
Phases ==
    {0, 100, 242, 243, 1000, 1475, 1476, 1477, 2000, 2951, 2952, 2953, 2954,
     5000, SynodicUnits \div 2, SynodicUnits - StepUnits, SynodicUnits - 1}

NewMoonSky(c, n, p) ==
    [correction |-> c[1], prevCorrection |-> c[2], nextCorrection |-> n,
     phase |-> p]

\* One call of findLastNewMoonJD, or one call of findNextNewMoonJD.
InitNewMoon ==
    /\ log = <<>>
    /\ \E jd \in NewMoonDays :
         \/ /\ queue = <<Call("findLastNewMoonJD", [jd |-> jd])>>
            /\ sky \in [{jd} -> {NewMoonSky(c, 0, p) :
                                    c \in Corrections, p \in Phases}]
         \/ /\ queue = <<Call("findNextNewMoonJD", [jd |-> jd])>>
            /\ sky \in [{jd} -> {NewMoonSky(<<0, 0>>, n, 0) :
                                    n \in {-100, -63, 0, 63, 100}}]

NextNewMoon ==
    \/ FindLastNewMoonJD
    \/ Refine
    \/ FindLastNewMoonReturn
    \/ FindNextNewMoonJD

SpecNewMoon == InitNewMoon /\ [][NextNewMoon]_vars

\* A call that has begun runs on: the engine is one thread that nothing
\* holds up.
SpecNewMoonFair == SpecNewMoon /\ WF_vars(NextNewMoon)

(***************************************************************************)
(* C16, C17.                                                               *)
(***************************************************************************)
\* About one synodic month, 30 days, is 3000 hundredths of a day.
\* C16: the closed-form estimate of findLastNewMoonJD(jd), after its step
\* back to k - 1, is at or before jd and less than about 30 days before it.
C16_LastEstimateWithinLunationBefore ==
    \A i \in 1..Len(log) :
        log[i].op = "findLastNewMoonJD" =>
            /\ log[i].ret.estimate <= 50 * log[i].args.jd
            /\ log[i].ret.estimate > 50 * log[i].args.jd - 3000

\* C17: findNextNewMoonJD(jd) is later than jd and at most about 30 days
\* after it.
C17_NextWithinLunationAfter ==
    \A i \in 1..Len(log) :
        log[i].op = "findNextNewMoonJD" =>
            /\ log[i].ret.jd > 50 * log[i].args.jd
            /\ log[i].ret.jd <= 50 * log[i].args.jd + 3000

(***************************************************************************)
(* C18, C19.                                                               *)
(***************************************************************************)
\* No call is inside the loop with more than 10 iterations made, and every
\* call that returned made at most 10 and returned the estimate as the loop
\* left it, raising nothing.
AtMostTenIterations ==
    /\ InLoop => Head(queue).i \in 0..10
    /\ \A n \in 1..Len(log) :
         log[n].op = "findLastNewMoonJD" =>
            /\ ~log[n].ret.threw
            /\ log[n].ret.iterations \in 0..10
            /\ log[n].ret.iterations < 10 =>
                  converged(elongationAt(log[n].args.jd, log[n].ret.shift))

\* Every call has returned.
AllReturned == queue = <<>>

\* C18: the refinement loop of findLastNewMoonJD ends after at most 10
\* iterations, converged or not, and findLastNewMoonJD then returns the
\* last estimate without raising an error.
C18_LoopEndsWithinTen == []AtMostTenIterations /\ <>AllReturned

\* findLastNewMoonJD returned after 10 iterations with the elongation
\* still at or above 0.01 degrees.
C18_Witness ==
    \E n \in 1..Len(log) :
        /\ log[n].op = "findLastNewMoonJD"
        /\ log[n].ret.iterations = 10
        /\ ~converged(elongationAt(log[n].args.jd, log[n].ret.shift))

\* The step just taken is an iteration of the loop.
Refined ==
    /\ InLoop
    /\ queue' # <<>>
    /\ Head(queue').op = "findLastNewMoonJD"
    /\ "i" \in DOMAIN Head(queue')
    /\ Head(queue').i = Head(queue).i + 1

\* C19: every Newton step of the loop leaves |e| no larger than it was,
\* for every starting estimate on either side of the conjunction, e being
\* the sawtooth (lunar - solar + 360) mod 360 in [0, 360).
C19_StepNeverWorsens ==
    [][Refined =>
         elongationAt(Head(queue').args.jd, Head(queue').shift)
             <= elongationAt(Head(queue).args.jd, Head(queue).shift)]_vars

(***************************************************************************)
(* C20.                                                                    *)
(***************************************************************************)
\* C20: convertToTithi classifies the day against calculateTithi(jd - 1):
\* the type is '8' exactly when today's number is yesterday's, '9' exactly
\* when it is yesterday's plus 2 or more, and '0' in every other case.
C20_TypeAgainstYesterday ==
    \A i \in 1..Len(log) :
        (log[i].op = "convertToTithi" /\ ~log[i].ret.threw) =>
            LET jd == gregorianToJD(log[i].args).jd
                today == log[i].ret.number
                yesterday == calculateTithi(jd - 2)
                type == log[i].ret.type
            IN  /\ today = calculateTithi(jd)
                /\ type \in {"0", "8", "9"}
                /\ type = "8" <=> today = yesterday
                /\ type = "9" <=> today >= yesterday + 2
                /\ type = "0" <=> (today # yesterday /\ today < yesterday + 2)

\* A day of tithi 15 after a day of tithi 1 was classified as skipped.
C20_Witness ==
    \E i \in 1..Len(log) :
        /\ log[i].op = "convertToTithi" /\ ~log[i].ret.threw
        /\ log[i].ret.number = 15
        /\ calculateTithi(gregorianToJD(log[i].args).jd - 2) = 1
        /\ log[i].ret.type = "9"

(***************************************************************************)
(* C21.                                                                    *)
(***************************************************************************)
\* convertToTithi returned for entry e: the number of the day before.
YesterdayOf(e) == calculateTithi(gregorianToJD(e.args).jd - 2)

\* Yesterday 29 with today 1, or yesterday 30 with today 2.
AcrossTheWrap(yesterday, today) ==
    <<yesterday, today>> \in {<<29, 1>>, <<30, 2>>}

\* C21 as stated: the type is skipped for yesterday n with today n + 2, and
\* in the cyclic numbering for yesterday 29 with today 1 and yesterday 30
\* with today 2.
C21_SkippedAroundTheCycle ==
    \A i \in 1..Len(log) :
        (log[i].op = "convertToTithi" /\ ~log[i].ret.threw) =>
            LET today == log[i].ret.number
                yesterday == YesterdayOf(log[i])
            IN  (today = yesterday + 2 \/ AcrossTheWrap(yesterday, today))
                    => log[i].ret.type = "9"

\* C21 as amended: the type is skipped for yesterday n with today n + 2 or
\* more in the plain numbers; for yesterday 29 with today 1 and yesterday 30
\* with today 2 it is normal.
C21_SkippedInPlainNumbers ==
    \A i \in 1..Len(log) :
        (log[i].op = "convertToTithi" /\ ~log[i].ret.threw) =>
            LET today == log[i].ret.number
                yesterday == YesterdayOf(log[i])
            IN  /\ today >= yesterday + 2 => log[i].ret.type = "9"
                /\ AcrossTheWrap(yesterday, today) => log[i].ret.type = "0"

\* A day of tithi 1 after a day of tithi 29 was classified as normal.
C21_Witness ==
    \E i \in 1..Len(log) :
        /\ log[i].op = "convertToTithi" /\ ~log[i].ret.threw
        /\ YesterdayOf(log[i]) = 29
        /\ log[i].ret.number = 1
        /\ log[i].ret.type = "0"

(***************************************************************************)
(* C22.                                                                    *)
(***************************************************************************)
\* The month convertToNSMonth found for the lunation after entry e.
NextMonthOf(e) ==
    monthLoop(solarLongAtNextLunation(gregorianToJD(e.args).jd), 0).number

\* Current month 11 with next 1, or current 12 with next 2.
AcrossTheYearEnd(current, next) ==
    <<current, next>> \in {<<11, 1>>, <<12, 2>>}

\* C22 as stated: nhala is 1 for current n with next n + 2, and in the cyclic
\* numbering for current 11 with next 1 and current 12 with next 2.
C22_NhalaAroundTheYear ==
    \A i \in 1..Len(log) :
        (log[i].op = "convertToNSMonth" /\ ~log[i].ret.threw) =>
            LET current == log[i].ret.number
                next == NextMonthOf(log[i])
            IN  (next = current + 2 \/ AcrossTheYearEnd(current, next))
                    => log[i].ret.nhala = 1

\* C22 as amended: nhala is 1 for current n with next n + 2 in the plain
\* numbers; for current 11 with next 1 and current 12 with next 2 it is 0.
C22_NhalaInPlainNumbers ==
    \A i \in 1..Len(log) :
        (log[i].op = "convertToNSMonth" /\ ~log[i].ret.threw) =>
            LET current == log[i].ret.number
                next == NextMonthOf(log[i])
            IN  /\ next = current + 2 => log[i].ret.nhala = 1
                /\ AcrossTheYearEnd(current, next) => log[i].ret.nhala = 0

\* The current month was 12 and the next 2: nhala was not set.
C22_Witness ==
    \E i \in 1..Len(log) :
        /\ log[i].op = "convertToNSMonth" /\ ~log[i].ret.threw
        /\ log[i].ret.number = 12
        /\ NextMonthOf(log[i]) = 2
        /\ log[i].ret.nhala = 0

(***************************************************************************)
(* C23.                                                                    *)
(***************************************************************************)
\* ceil(e / 12) for the elongation e in [0, 360) of the two longitudes.
ClaimCandidate(lunar, solar) == CeilDiv12((lunar - solar) % 360)

ClaimSunriseCandidate(jd) ==
    ClaimCandidate(sky[jd].lunarSunrise, sky[jd].solarSunrise)

ClaimLateCandidate(jd) == ClaimCandidate(sky[jd].lunarLate, sky[jd].solarLate)

\* The candidate at JD + 0.95 is later in the cycle than the one at sunrise:
\* a larger number, or 1 after 30.
ClaimLaterInCycle(late, sunrise) ==
    late > sunrise \/ (sunrise = 30 /\ late = 1)

\* C23: calculateTithi returns the candidate at JD + 0.95 whenever
\* it is later in the lunar cycle than the candidate at sunrise, the wrap from
\* 30 to 1 included, and the candidate at sunrise otherwise.
C23_LaterCandidateGoverns ==
    \A i \in 1..Len(log) :
        log[i].op = "calculateTithi" =>
            LET sunrise == ClaimSunriseCandidate(log[i].args.jd)
                late == ClaimLateCandidate(log[i].args.jd)
            IN  log[i].ret.number =
                    (IF ClaimLaterInCycle(late, sunrise) THEN late ELSE sunrise)

ClaimNextDay(a) ==
    IF a.day < ClaimDaysInMonth(a.year, a.month)
    THEN DateArgs(a.year, a.month, a.day + 1, {})
    ELSE IF a.month < 12 THEN DateArgs(a.year, a.month + 1, 1, {})
    ELSE DateArgs(a.year + 1, 1, 1, {})

\* Date a is 15 October 1582 or later.
ClaimOnOrAfterReform(a) ==
    \/ a.year > 1582
    \/ (a.year = 1582 /\ a.month > 10)
    \/ (a.year = 1582 /\ a.month = 10 /\ a.day >= 15)

\* The reform year, a century year that is leap and others that are not, a
\* leap year, and their neighbours.
NextDayYears ==
    Around(1582) \cup Around(1600) \cup Around(1700) \cup Around(1900)
        \cup Around(2000) \cup Around(2024)

\* Every calendar day of those years on or after 15 October 1582.
GregorianDays ==
    {a \in {DateArgs(y, m, d, {}) : y \in NextDayYears, m \in 1..12, d \in 1..31} :
        a.day <= ClaimDaysInMonth(a.year, a.month) /\ ClaimOnOrAfterReform(a)}

\* A day and the day after it; 4 October 1582 and 15 October 1582.
InitNextDay ==
    /\ log = <<>>
    /\ sky = NoSky
    /\ \/ \E a \in GregorianDays :
            queue = <<Call("gregorianToJD", a),
                      Call("gregorianToJD", ClaimNextDay(a))>>
       \/ queue = <<Call("gregorianToJD", DateArgs(1582, 10, 4, {})),
                    Call("gregorianToJD", DateArgs(1582, 10, 15, {}))>>

NextNextDay == GregorianToJD

SpecNextDay == InitNextDay /\ [][NextNextDay]_vars

\* C26: for every Gregorian date on or after 15 October 1582, gregorianToJD
\* of the next calendar day is gregorianToJD of the day plus 1, and
\* gregorianToJD(1582, 10, 15) is gregorianToJD(1582, 10, 4) plus 1.
C26_NextDayIsOneMore ==
    Len(log) = 2 =>
        /\ ~log[1].ret.threw /\ ~log[2].ret.threw
        /\ log[2].ret.jd = log[1].ret.jd + 2

\* 1 March 2000 came one day after 29 February 2000.
C26_Witness ==
    /\ Len(log) = 2
    /\ log[1].args = DateArgs(2000, 2, 29, {})
    /\ log[2].args = DateArgs(2000, 3, 1, {})
    /\ ~log[1].ret.threw /\ ~log[2].ret.threw
    /\ log[2].ret.jd = log[1].ret.jd + 2

(***************************************************************************)
(* calendar/conversion.ts: the year of a Gregorian month.                  *)
(***************************************************************************)
\* The arguments of convertToNSYear; month is read only when it was passed.
YearArgs(y, m, f, o) == [year |-> y, month |-> m, frac |-> f, omitted |-> o]

\* conversion.ts:120: month: number = 10, and the date handed to
\* gregorianToJD(year, month, 1).
firstOfMonth(a) ==
    IF a.omitted
    THEN DateArgs(a.year, 10, 1, a.frac \ {"month"})
    ELSE DateArgs(a.year, a.month, 1, a.frac)

\* The year counted with the month of Yanla whatever the new moon says.
convertToNSYearOfYanla(a) ==
    LET g == gregorianToJD(firstOfMonth(a))
    IN  IF g.threw THEN g
        ELSE [threw |-> FALSE, nsYear |-> calculateNSYear(g.jd, 10)]

\* conversion.ts:120-124
convertToNSYear(a) ==
    LET g == gregorianToJD(firstOfMonth(a))
        jd == g.jd
        nsMonth == calculateNSMonth(jd).number
    IN  IF g.threw THEN g
        ELSE [threw |-> FALSE, nsYear |-> calculateNSYear(jd, nsMonth)]

ConvertToNSYear ==
    /\ Pending("convertToNSYear")
    /\ Return(convertToNSYear(Head(queue).args))

\* The arguments: any month, whole or not, or none.
YearCalls ==
    {YearArgs(y, m, f, FALSE) :
        y \in EraYears, m \in Months, f \in SUBSET {"year", "month"}}
      \cup {YearArgs(y, 10, f, TRUE) : y \in EraYears, f \in SUBSET {"year"}}

\* The solar longitude at the last new moon every 15 degrees, the next new
\* moon one sector on; the day before under one sky.
YearSkies(a) ==
    IF gregorianToJD(a).threw THEN {NoSky}
    ELSE LET jd == gregorianToJD(a).jd
         IN  {(jd :> SkyRecord(100, 90, 101, 91, 15 * k, (15 * k + 30) % 360))
                @@ ((jd - 2) :> SkyRecord(90, 90, 91, 91, 0, 0)) :
                 k \in 0..23}

\* convertToNSYear(year, month) or convertToNSYear(year), then
\* convertToNSDate of the first day of that month.
InitYearOfMonth ==
    /\ log = <<>>
    /\ \E a \in YearCalls :
         /\ queue = <<Call("convertToNSYear", a),
                      Call("convertToNSDate", firstOfMonth(a))>>
         /\ sky \in YearSkies(firstOfMonth(a))

NextYearOfMonth == ConvertToNSYear \/ ConvertToNSDate

SpecYearOfMonth == InitYearOfMonth /\ [][NextYearOfMonth]_vars

(***************************************************************************)
(* C27.                                                                    *)
(***************************************************************************)
\* The year is not an integer, or the month passed is not one of 1..12.
ClaimYearRejects(a) ==
    \/ "year" \in a.frac
    \/ (~a.omitted /\ ("month" \in a.frac \/ a.month \notin 1..12))

\* C27: convertToNSYear(year, month) equals convertToNSDate(year, month,
\* 1).nsYear for every integer year and month in 1..12, convertToNSYear(year)
\* is that of month 10, and convertToNSYear raises only when the year is not
\* an integer or the month is invalid.
C27_YearOfFirstOfMonth ==
    (Len(log) = 2 /\ log[1].op = "convertToNSYear") =>
        /\ log[1].ret.threw => ClaimYearRejects(log[1].args)
        /\ ~ClaimYearRejects(log[1].args) =>
              /\ log[2].op = "convertToNSDate" /\ ~log[2].ret.threw
              /\ log[2].args.day = 1
              /\ log[2].args.month =
                    (IF log[1].args.omitted THEN 10 ELSE log[1].args.month)
              /\ log[1].ret.nsYear = log[2].ret.nsYear

\* convertToNSYear(2024) and convertToNSDate(2024, 10, 1) gave one year, in
\* a month other than Yanla.
C27_Witness ==
    /\ Len(log) = 2
    /\ log[1].op = "convertToNSYear"
    /\ log[1].args.omitted /\ log[1].args.year = 2024
    /\ ~log[1].ret.threw /\ ~log[2].ret.threw
    /\ log[2].args = DateArgs(2024, 10, 1, {})
    /\ log[2].ret.month.number = 1
    /\ log[1].ret.nsYear = log[2].ret.nsYear

(***************************************************************************)
(* unnamed/part_001: getSunriseJD.  Times are counted from jd in           *)
(* 1/720000 day, so that one degree of hour angle over 360 / 2 is 1000.    *)
(***************************************************************************)
\* part_001:33-36: eqTime = C * 4, in whole minutes.
eqTimeAt(jd) == sky[jd].eqTime

\* part_001:44-46: cosH, in thousandths.
cosHAt(jd) == sky[jd].cosH

\* part_001:42: jd + 5.75 / 24 - KATHMANDU_LON / 360 + eqTime / 1440, less jd.
solarNoonSince(jd) == 172500 - 170648 + 500 * eqTimeAt(jd)

\* part_001:47: cosH < -1 ? -1 : cosH > 1 ? 1 : cosH
clampCosH(c) == IF c < -1000 THEN -1000 ELSE IF c > 1000 THEN 1000 ELSE c

\* Math.acos(c) * RAD_TO_DEG to the nearest degree, for the c in CosHs.
acosDegrees(c) ==
    CASE c = -1000 -> 180
      [] c = -500 -> 120
      [] c = -242 -> 104
      [] c = 0 -> 90
      [] c = 225 -> 77
      [] c = 500 -> 60
      [] c = 1000 -> 0

\* part_001:47: H, in degrees.
hourAngle(jd) == acosDegrees(clampCosH(cosHAt(jd)))

\* part_001:48: (H * RAD_TO_DEG) / 360 / 2
sunriseOffset(jd) == 1000 * hourAngle(jd)

\* part_001:28-50: the sunrise, less jd.
getSunriseJD(jd) == solarNoonSince(jd) - sunriseOffset(jd)

GetSunriseJD ==
    /\ Pending("getSunriseJD")
    /\ Return([threw |-> FALSE,
               sinceJD |-> getSunriseJD(Head(queue).args.jd)])

\* cosH at Kathmandu through the year (-0.242 .. 0.225), and values at, inside
\* and beyond the ends of [-1, 1].
CosHs == {-1500, -1000, -500, -242, 0, 225, 500, 1000, 1500}

\* The equation of time, in minutes.
EqTimes == {-16, -8, 0, 8, 16}

SunriseDays ==
    {julianDay2(2000, 1, 1), julianDay2(2024, 4, 14), julianDay2(2024, 12, 21)}

\* One call of getSunriseJD.
InitSunrise ==
    /\ log = <<>>
    /\ \E jd \in SunriseDays :
         /\ queue = <<Call("getSunriseJD", [jd |-> jd])>>
         /\ sky \in [{jd} -> [eqTime : EqTimes, cosH : CosHs]]

NextSunrise == GetSunriseJD

SpecSunrise == InitSunrise /\ [][NextSunrise]_vars

(***************************************************************************)
(* C24.                                                                    *)
(***************************************************************************)
\* The hour angle of the claim: the arc-cosine of cosH clamped to [-1, 1].
ClaimHourAngle(jd) ==
    acosDegrees(IF sky[jd].cosH < -1000 THEN -1000
                ELSE IF sky[jd].cosH > 1000 THEN 1000 ELSE sky[jd].cosH)

\* C24: getSunriseJD returns solar noon minus half the day-arc: with the
\* hour angle H in [0, 180] degrees the day-arc is 2H / 360 day and the offset
\* subtracted is H / 360 day, and nothing is raised.
C24_OffsetIsHalfTheDayArc ==
    \A i \in 1..Len(log) :
        log[i].op = "getSunriseJD" =>
            LET jd == log[i].args.jd
                H == ClaimHourAngle(jd)
            IN  /\ ~log[i].ret.threw
                /\ H \in 0..180
                /\ log[i].ret.sinceJD = solarNoonSince(jd) - 2000 * H

(***************************************************************************)
(* unnamed/part_001: the periodic terms of findLastNewMoonJD.  Angles are  *)
(* whole degrees, sines ten-thousandths, corrections 1e-8 day.             *)
(***************************************************************************)
\* 10000 * sin of 0..90 degrees, to the nearest integer.
SineQuarter ==
    <<
      0, 175, 349, 523, 698, 872, 1045, 1219, 1392, 1564,
      1736, 1908, 2079, 2250, 2419, 2588, 2756, 2924, 3090, 3256,
      3420, 3584, 3746, 3907, 4067, 4226, 4384, 4540, 4695, 4848,
      5000, 5150, 5299, 5446, 5592, 5736, 5878, 6018, 6157, 6293,
      6428, 6561, 6691, 6820, 6947, 7071, 7193, 7314, 7431, 7547,
      7660, 7771, 7880, 7986, 8090, 8192, 8290, 8387, 8480, 8572,
      8660, 8746, 8829, 8910, 8988, 9063, 9135, 9205, 9272, 9336,
      9397, 9455, 9511, 9563, 9613, 9659, 9703, 9744, 9781, 9816,
      9848, 9877, 9903, 9925, 9945, 9962, 9976, 9986, 9994, 9998,
      10000
    >>

\* Math.sin(d * DEG_TO_RAD), in ten-thousandths.
sinE4(d) ==
    LET r == d % 360
    IN  IF r <= 90 THEN SineQuarter[r + 1]
        ELSE IF r <= 180 THEN SineQuarter[181 - r]
        ELSE IF r <= 270 THEN -SineQuarter[r - 179]
        ELSE -SineQuarter[361 - r]

\* part_001:197: t = (jd - 2451545.0) / 36525, in whole centuries.
centuriesSinceJ2000(jd) == (jd - J2000) \div 73050

\* part_001:204-206: the sums the anomalies of lunation k are the remainders
\* of, as the sky gives them.
rawAnomalies(jd) == sky[jd].anomalies

\* part_001:204-206: M, M_m, F = (...) % 360
anomaliesOfK(jd) ==
    [M |-> JsRem(rawAnomalies(jd).M, 360),
     M_m |-> JsRem(rawAnomalies(jd).M_m, 360),
     F |-> JsRem(rawAnomalies(jd).F, 360)]

\* part_001:229-234: prevM, prevM_m, prevF: the sums one lunation back, the
\* motions 29.10535608, 385.81691806 and 390.67050646 in whole degrees.
anomaliesOfPrevK(jd) ==
    [M |-> JsRem(rawAnomalies(jd).M - 29, 360),
     M_m |-> JsRem(rawAnomalies(jd).M_m - 386, 360),
     F |-> JsRem(rawAnomalies(jd).F - 391, 360)]

\* (0.1734 - 0.000393 * t) * Math.sin(M * DEG_TO_RAD)
firstTerm(t, M) == ((173400 - 393 * t) * sinE4(M)) \div 100

\* part_001:208-221: the 13 terms with the anomalies a.
periodicCorrection(t, a) ==
    firstTerm(t, a.M)
      + 21 * sinE4(2 * a.M)
      - 4068 * sinE4(a.M_m)
      + 161 * sinE4(2 * a.M_m)
      - 4 * sinE4(3 * a.M_m)
      + 104 * sinE4(2 * a.F)
      - 51 * sinE4(a.M + a.M_m)
      - 74 * sinE4(a.M - a.M_m)
      + 4 * sinE4(2 * a.F + a.M)
      - 4 * sinE4(2 * a.F - a.M)
      - 6 * sinE4(2 * a.F + a.M_m)
      + 10 * sinE4(2 * a.F - a.M_m)
      + 5 * sinE4(a.M + 2 * a.M_m)

\* part_001:236-249: the 13 terms of the step back, with the anomalies p of
\* k - 1 and, in the twelfth, M_m of k.
fallbackCorrection(t, p, M_m) ==
    firstTerm(t, p.M)
      + 21 * sinE4(2 * p.M)
      - 4068 * sinE4(p.M_m)
      + 161 * sinE4(2 * p.M_m)
      - 4 * sinE4(3 * p.M_m)
      + 104 * sinE4(2 * p.F)
      - 51 * sinE4(p.M + p.M_m)
      - 74 * sinE4(p.M - p.M_m)
      + 4 * sinE4(2 * p.F + p.M)
      - 4 * sinE4(2 * p.F - p.M)
      - 6 * sinE4(2 * p.F + p.M_m)
      + 10 * sinE4(2 * p.F - M_m)
      + 5 * sinE4(p.M + 2 * p.M_m)

\* part_001:200-252: the lunation index and the correction of the estimate
\* the loop starts from.
estimateByTerms(jd) ==
    LET t == centuriesSinceJ2000(jd)
        k == lastLunationIndex(jd)
        correction == periodicCorrection(t, anomaliesOfK(jd))
    IN  IF lastMeanNewMoon(k) + (correction \div 1000000) > 50 * jd
        THEN [index |-> k - 1,
              correction |-> fallbackCorrection(t, anomaliesOfPrevK(jd),
                                                anomaliesOfK(jd).M_m)]
        ELSE [index |-> k, correction |-> correction]

\* findLastNewMoonJD up to the loop, the 13 terms worked out.
FindLastNewMoonJDByTerms ==
    /\ Pending("findLastNewMoonJD")
    /\ ~InLoop
    /\ LET e == estimateByTerms(Head(queue).args.jd)
       IN  queue' = <<[op |-> "findLastNewMoonJD",
                       args |-> Head(queue).args,
                       index |-> e.index,
                       correction |-> e.correction,
                       estimate |-> lastMeanNewMoon(e.index)
                                       + (e.correction \div 1000000),
                       shift |-> 0,
                       i |-> 0]>> \o Tail(queue)
    /\ UNCHANGED <<log, sky>>

\* Sums of the anomaly series: in the first turn, beyond it, below zero, and
\* less than one lunation's motion above zero.
RawAngles == {-400, -45, 10, 90, 200, 359, 500}

TermPhases == {0, 243, 5000}

TermDays == {julianDay2(y, 4, 14) : y \in {-3200, 881, 2024}}

TermSky(m, mm, f, p) ==
    [anomalies |-> [M |-> m, M_m |-> mm, F |-> f], phase |-> p]

\* One call of findLastNewMoonJD.
InitTerms ==
    /\ log = <<>>
    /\ \E jd \in TermDays :
         /\ queue = <<Call("findLastNewMoonJD", [jd |-> jd])>>
         /\ sky \in [{jd} -> {TermSky(m, mm, f, p) :
                                 m \in RawAngles, mm \in RawAngles,
                                 f \in RawAngles, p \in TermPhases}]

NextTerms == FindLastNewMoonJDByTerms \/ Refine \/ FindLastNewMoonReturn

SpecTerms == InitTerms /\ [][NextTerms]_vars

(***************************************************************************)
(* C25.                                                                    *)
(***************************************************************************)
\* The estimate was taken one lunation back from lastLunationIndex(jd).
SteppedBack(c) == c.index = lastLunationIndex(c.args.jd) - 1

\* C25: when findLastNewMoonJD steps back to k - 1, every periodic term is
\* taken with the anomalies of k - 1, so the estimate is the closed form
\* (mean new moon plus the 13 terms) of index k - 1 for the same t.
C25_FallbackIsClosedFormOfPrevK ==
    (InLoop /\ SteppedBack(Head(queue))) =>
        LET jd == Head(queue).args.jd
        IN  Head(queue).correction =
                periodicCorrection(centuriesSinceJ2000(jd), anomaliesOfPrevK(jd))

====
